---- MODULE Spec2Model ----
\* A model of the vmodem engine (src/vmodem.go): the status state machine,
\* the AT command tokenizer/executor, the terminal read task, the dial task
\* and the lock discipline that ties them together.
EXTENDS Integers, Sequences, FiniteSets, TLC

\* ---------------------------------------------------------------- bounds
\* Number of dial tasks one behaviour may start.
MaxDials == 2
\* Longest command line the terminal user types into the edit buffer.
MaxLine == 1

\* Number of sub-commands chained in one command line.
MaxChain == 2

\* ------------------------------------------------------ program constants
\* The nil connection (m.conn = nil).
NoConn == 0
\* Capacity of the edit buffer of the read task.
BufCap == 100
\* Largest register index / value of the S command.
MaxReg == 255
\* The default connect string.
connectStr == "CONNECT"

Statuses == {"Idle", "Dialing", "Connected", "ConnectedCmd", "Ringing", "Closed"}

\* Streams the application offers to incomingCall.
IncomingConns == {101, 102}
\* The stream the outgoing-call capability hands to dial task i.
DialConn(i) == i

\* Bytes the terminal user types outside command-entry mode ("\r" stands
\* for every byte that is none of A, T and /).
IdleBytes == {"A", "T", "/", "\r"}
\* Bytes the terminal user types into a command line, before the "\r".
LineBytes == {"A", "D"}
\* Command lines the application injects with ProcessAtCommandSync.
InjectedCmds == {<<"D">>, <<"A">>, <<"H">>, <<"O">>}
\* Behaviours of the configured command hook: none configured, one that
\* always defers to the built-ins, one that always answers ERROR.
HookKinds == {"nil", "Skip", "Error"}
\* The configurations NewModem is given: whether an outgoing-call capability
\* is configured, and which command hook.
Configs ==
    {[outgoingCall |-> TRUE, commandHook |-> "nil"],
     [outgoingCall |-> FALSE, commandHook |-> "Skip"],
     [outgoingCall |-> TRUE, commandHook |-> "Error"]}

VARIABLES
    st,              \* m.st
    conn,            \* m.conn
    stCtx,           \* m.stCtx: identity of the current status scope
    cancelled,       \* status scopes whose cancel function has been called
    lifeCancelled,   \* m.cancel() has been called (m.ctx)
    parentCancelled, \* the context given to NewModem has been cancelled
    ttyClosed,       \* m.tty.Close() has been called
    closedConns,     \* connection streams on which Close() has been called
    sregs,           \* m.sregs
    echo,            \* m.echo
    shortForm,       \* m.shortForm
    outgoingCall,    \* whether m.outgoingCall is configured
    commandHook,     \* which m.commandHook is configured
    dials,           \* the processDialing goroutines started so far
    rt,              \* the ttyReadTask goroutine: position and locals
    lockOwner,       \* who holds the modem mutex
    panicked,        \* "none", or the panic that aborted the process
    ttyOut,          \* what the latest step wrote to the terminal
    connOut,         \* what the latest step wrote to the connection
    ret,             \* what the latest call returned
    hookCalls        \* how often the latest step invoked the command hook

vars == <<st, conn, stCtx, cancelled, lifeCancelled, parentCancelled, ttyClosed,
          closedConns, sregs, echo, shortForm, outgoingCall, commandHook, dials,
          rt, lockOwner, panicked, ttyOut, connOut, ret, hookCalls>>

\* ------------------------------------------------- the Modem as a value
\* The fields of the Modem a locked section reads and writes, with the
\* outputs of the section so far.
Cur ==
    [st |-> st, conn |-> conn, stCtx |-> stCtx, cancelled |-> cancelled,
     lifeCancelled |-> lifeCancelled, ttyClosed |-> ttyClosed,
     closedConns |-> closedConns, sregs |-> sregs, echo |-> echo,
     shortForm |-> shortForm, outgoingCall |-> outgoingCall,
     commandHook |-> commandHook, dials |-> dials, panicked |-> "none",
     ttyOut |-> <<>>, connOut |-> <<>>, ret |-> "none", hookCalls |-> 0]

Install(m) ==
    /\ st' = m.st
    /\ conn' = m.conn
    /\ stCtx' = m.stCtx
    /\ cancelled' = m.cancelled
    /\ lifeCancelled' = m.lifeCancelled
    /\ ttyClosed' = m.ttyClosed
    /\ closedConns' = m.closedConns
    /\ sregs' = m.sregs
    /\ echo' = m.echo
    /\ shortForm' = m.shortForm
    /\ dials' = m.dials
    /\ panicked' = m.panicked
    /\ ttyOut' = m.ttyOut
    /\ connOut' = m.connOut
    /\ ret' = m.ret
    /\ hookCalls' = m.hookCalls
    /\ UNCHANGED <<outgoingCall, commandHook>>

\* A Go panic: the rest of the section does not run.
Panic(m, what) == [m EXCEPT !.panicked = what]

checkValidCmdChar(b) ==
    b \in {"A", "B", "C", "D", "E", "F", "G", "H", "I", "J", "K", "L", "M",
           "N", "O", "P", "Q", "R", "S", "T", "U", "V", "W", "X", "Y", "Z",
           "a", "b", "c", "d", "e", "f", "g", "h", "i", "j", "k", "l", "m",
           "n", "o", "p", "q", "r", "s", "t", "u", "v", "w", "x", "y", "z"}

DigitVal ==
    [c \in {"0", "1", "2", "3", "4", "5", "6", "7", "8", "9"} |->
        CASE c = "0" -> 0 [] c = "1" -> 1 [] c = "2" -> 2 [] c = "3" -> 3
          [] c = "4" -> 4 [] c = "5" -> 5 [] c = "6" -> 6 [] c = "7" -> 7
          [] c = "8" -> 8 [] c = "9" -> 9]

checkValidNumChar(b) == b \in DOMAIN DigitVal

\* strings.ToUpper / bytes.ToUpper on one byte.
ToUpperByte(b) ==
    CASE b = "a" -> "A" [] b = "b" -> "B" [] b = "c" -> "C" [] b = "d" -> "D"
      [] b = "e" -> "E" [] b = "f" -> "F" [] b = "g" -> "G" [] b = "h" -> "H"
      [] b = "i" -> "I" [] b = "j" -> "J" [] b = "k" -> "K" [] b = "l" -> "L"
      [] b = "m" -> "M" [] b = "n" -> "N" [] b = "o" -> "O" [] b = "p" -> "P"
      [] b = "q" -> "Q" [] b = "r" -> "R" [] b = "s" -> "S" [] b = "t" -> "T"
      [] b = "u" -> "U" [] b = "v" -> "V" [] b = "w" -> "W" [] b = "x" -> "X"
      [] b = "y" -> "Y" [] b = "z" -> "Z" [] OTHER -> b

ToUpper(s) == [i \in 1..Len(s) |-> ToUpperByte(s[i])]

\* strconv.Atoi on a string of digits, its error ignored: "" gives 0.
RECURSIVE Atoi(_)
Atoi(s) ==
    IF Len(s) = 0 THEN 0
    ELSE 10 * Atoi(SubSeq(s, 1, Len(s) - 1)) + DigitVal[s[Len(s)]]

\* strconv.IsPrint on one byte of the terminal alphabet.
IsPrint(b) == b \notin {"\r", "\n", "DEL", "EOF"}

\* ctx.Err() != nil for the status scope c. Scope 0 is the one NewModem
\* derives from the caller's context; the later ones derive from m.ctx.
ctxErr(m, c, parentDone) ==
    \/ c \in m.cancelled
    \/ parentDone
    \/ (c # 0 /\ m.lifeCancelled)

\* --------------------------------------------------------- terminal output
ttyWriteStr(m, toks) ==
    IF m.ttyClosed THEN m ELSE [m EXCEPT !.ttyOut = @ \o toks]

cr(m) == IF m.shortForm THEN "\r" ELSE "\r\n"

retStr(m, r) ==
    IF m.shortForm
    THEN CASE r = "Ok" -> "0" [] r = "Error" -> "4" [] r = "Connect" -> "1"
           [] r = "NoCarrier" -> "3" [] r = "NoDialtone" -> "6"
           [] r = "Busy" -> "7" [] r = "NoAnswer" -> "8" [] OTHER -> ""
    ELSE CASE r = "Ok" -> "OK" [] r = "Error" -> "ERROR"
           [] r = "Connect" -> connectStr [] r = "NoCarrier" -> "NO CARRIER"
           [] r = "NoDialtone" -> "NO DIALTONE" [] r = "Busy" -> "BUSY"
           [] r = "NoAnswer" -> "NO ANSWER" [] OTHER -> ""

printRetCode(m, r) ==
    IF r = "Silent" THEN m
    ELSE ttyWriteStr(m, <<cr(m), retStr(m, r), cr(m)>>)

\* ------------------------------------------------------ the state machine
\* m.conn.Close(); m.conn = nil
closeConn(m) ==
    IF m.conn = NoConn THEN Panic(m, "nil")
    ELSE [m EXCEPT !.closedConns = @ \cup {m.conn}, !.conn = NoConn]

\* renewStCtx with the call of m.stCtxCancel() left out.
renewStCtx_NoCancel(m) == [m EXCEPT !.stCtx = m.stCtx + 1]

\* m.stCtxCancel(); m.stCtx, m.stCtxCancel = context.WithCancel(m.ctx)
renewStCtx(m) ==
    [m EXCEPT !.cancelled = @ \cup {m.stCtx}, !.stCtx = m.stCtx + 1]

\* The end of setStatus: the scope is renewed and the status stored, unless
\* the transition panicked.
commitStatus(m1, status) ==
    IF m1.panicked # "none" THEN m1
    ELSE [renewStCtx(m1) EXCEPT !.st = status]

\* idleCloseConn with the connection kept when the call is hung up.
idleCloseConn_KeepsConn(a, prevStatus) == a

\* case StatusIdle, after the NO CARRIER line.
idleCloseConn(a, prevStatus) ==
    IF prevStatus \in {"Connected", "ConnectedCmd", "Ringing"}
    THEN closeConn(a) ELSE a

\* idleNoCarrier with Dialing left out of the statuses that report the loss
\* of the carrier.
idleNoCarrier_NotDialing(m, prevStatus) ==
    IF prevStatus \in {"Connected", "ConnectedCmd"}
    THEN printRetCode(m, "NoCarrier") ELSE m

\* case StatusIdle, the NO CARRIER line.
idleNoCarrier(m, prevStatus) ==
    IF prevStatus \in {"Connected", "ConnectedCmd", "Dialing"}
    THEN printRetCode(m, "NoCarrier") ELSE m

\* The switch of setStatus over the new status.
enterStatus(m, prevStatus, status) ==
    CASE status = "Idle" -> idleCloseConn(idleNoCarrier(m, prevStatus), prevStatus)
      [] status = "Connected" ->
           IF prevStatus \notin {"Dialing", "Ringing", "ConnectedCmd"}
           THEN Panic(m, "transition")
           ELSE printRetCode(m, "Connect")
      [] status = "ConnectedCmd" ->
           IF prevStatus # "Connected"
           THEN Panic(m, "transition")
           ELSE printRetCode(m, "Ok")
      [] status = "Dialing" ->
           IF prevStatus # "Idle" THEN Panic(m, "transition") ELSE m
      [] status = "Ringing" ->
           IF prevStatus # "Idle" THEN Panic(m, "transition") ELSE m
      [] OTHER -> m

\* setStatus without the test for a Closed modem at its head.
setStatus_NoClosedTest(m, status) ==
    commitStatus(enterStatus(m, m.st, status), status)

setStatus(m, status) ==
    IF m.st = "Closed" THEN Panic(m, "transition")
    ELSE commitStatus(enterStatus(m, m.st, status), status)

\* m.cancel(); m.tty.Close()
closeRest(m1) ==
    IF m1.panicked # "none" THEN m1
    ELSE [m1 EXCEPT !.lifeCancelled = TRUE, !.ttyClosed = TRUE]

close(m) == closeRest(setStatus(m, "Closed"))

\* m.conn = conn; return nil
storeConn(m1, c) ==
    IF m1.panicked # "none" THEN m1
    ELSE [m1 EXCEPT !.conn = c, !.ret = "nil"]

\* incomingCall that takes the call in Ringing too, replacing the stream.
incomingCall_TakesWhileRinging(m, c) ==
    IF m.st \notin {"Idle", "Ringing"} THEN [m EXCEPT !.ret = "ErrModemBusy"]
    ELSE IF m.st = "Ringing" THEN [m EXCEPT !.conn = c, !.ret = "nil"]
    ELSE storeConn(setStatus(m, "Ringing"), c)

incomingCall(m, c) ==
    IF m.st # "Idle" THEN [m EXCEPT !.ret = "ErrModemBusy"]
    ELSE storeConn(setStatus(m, "Ringing"), c)

\* ------------------------------------------------------- command execution
\* fmt.Sprintf("%03d", v) for a byte v, one token per digit.
Fmt03d(v) ==
    LET d == [n \in 0..9 |-> CHOOSE c \in DOMAIN DigitVal : DigitVal[c] = n]
    IN  <<d[v \div 100], d[(v \div 10) % 10], d[v % 10]>>

\* sregGet that reads the register below the one asked for.
sregGet_OffByOne(m, r) ==
    IF r - 1 \in DOMAIN m.sregs THEN m.sregs[r - 1] ELSE 0

\* m.sregs[byte(r)]: a missing key reads as 0.
sregGet(m, r) == IF r \in DOMAIN m.sregs THEN m.sregs[r] ELSE 0

\* go m.processDialing(m.stCtx, cmdAssignVal); return RetCodeSilent
goProcessDialing(m1) ==
    IF m1.panicked # "none" THEN m1
    ELSE [m1 EXCEPT !.dials = Append(@, [ctx |-> m1.stCtx, pc |-> "start",
                                         err |-> FALSE, outcome |-> "none"]),
                    !.ret = "Silent"]

Return(m, r) == [m EXCEPT !.ret = r]

\* dialCommand that does not test whether a capability is configured.
dialCommand_NoCapabilityTest(m) ==
    IF m.st # "Idle" THEN Return(m, "Error")
    ELSE goProcessDialing(setStatus(m, "Dialing"))

\* case "D" of processCommand.
dialCommand(m) ==
    IF m.st # "Idle" THEN Return(m, "Error")
    ELSE IF m.outgoingCall
    THEN goProcessDialing(setStatus(m, "Dialing"))
    ELSE Return(m, "NoCarrier")

builtinCommand(m, cmdChar, cmdNum, cmdAssign, cmdQuery, cmdAssignVal) ==
    CASE cmdChar = <<"S">> ->
           LET r == Atoi(cmdNum) IN
           IF r < 0 \/ r > MaxReg THEN Return(m, "Error")
           ELSE IF cmdAssign
           THEN LET v == Atoi(cmdAssignVal) IN
                IF v < 0 \/ v > MaxReg THEN Return(m, "Error")
                ELSE Return([m EXCEPT !.sregs = (r :> v) @@ @], "Ok")
           ELSE IF cmdQuery
           THEN Return(ttyWriteStr(m, <<cr(m)>> \o Fmt03d(sregGet(m, r)) \o <<"\r\n">>), "Ok")
           ELSE Return(m, "Ok")
      [] cmdChar = <<"E">> ->
           LET n == Atoi(cmdNum) IN
           IF n = 0 THEN Return([m EXCEPT !.echo = FALSE], "Ok")
           ELSE IF n = 1 THEN Return([m EXCEPT !.echo = TRUE], "Ok")
           ELSE Return(m, "Error")
      [] cmdChar = <<"V">> ->
           LET n == Atoi(cmdNum) IN
           IF n = 0 THEN Return([m EXCEPT !.shortForm = TRUE], "Ok")
           ELSE IF n = 1 THEN Return([m EXCEPT !.shortForm = FALSE], "Ok")
           ELSE Return(m, "Error")
      [] cmdChar = <<"D">> -> dialCommand(m)
      [] cmdChar = <<"A">> ->
           IF m.st = "Idle" THEN Return(m, "NoCarrier")
           ELSE IF m.st # "Ringing" THEN Return(m, "Error")
           ELSE Return(setStatus(m, "Connected"), "Silent")
      [] cmdChar = <<"H">> ->
           IF m.st \in {"Connected", "ConnectedCmd"}
           THEN Return(setStatus(m, "Idle"), "Silent")
           ELSE Return(m, "Ok")
      [] cmdChar = <<"O">> ->
           IF m.st # "ConnectedCmd" THEN Return(m, "Error")
           ELSE Return(setStatus(m, "Connected"), "Silent")
      [] OTHER -> Return(m, "Ok")

\* m.commandHook(m, ...): the hook is invoked and answers with its kind.
callHook(m) == [m EXCEPT !.hookCalls = @ + 1, !.ret = m.commandHook]

processCommand(m, cmdChar, cmdNum, cmdAssign, cmdQuery, cmdAssignVal) ==
    IF m.commandHook # "nil" /\ m.commandHook # "Skip"
    THEN callHook(m)
    ELSE builtinCommand(IF m.commandHook # "nil" THEN callHook(m) ELSE m,
                        cmdChar, cmdNum, cmdAssign, cmdQuery, cmdAssignVal)

\* ------------------------------------------------------------ the tokenizer
\* The locals of one pass of the outer loop of processAtCommand; buf is
\* what cmdBuf still holds.
NewSub(buf) ==
    [buf |-> buf, cmdChar |-> <<>>, cmdNum |-> <<>>, cmdLong |-> FALSE,
     cmdAssign |-> FALSE, cmdQuery |-> FALSE, cmdAssignVal |-> <<>>, e |-> FALSE]

\* The inner loop: reads one sub-command off the front of t.buf.
RECURSIVE scanSub(_)
scanSub(t) ==
    IF Len(t.buf) = 0 \/ t.e THEN t
    ELSE
      LET b == Head(t.buf)
          t1 == [t EXCEPT !.buf = Tail(@)]
          bad == [t1 EXCEPT !.e = TRUE]
      IN
      IF b = "?" THEN
          IF t.cmdChar # <<>> THEN [t1 EXCEPT !.cmdQuery = TRUE] ELSE bad
      ELSE IF t.cmdAssign THEN
          IF ~t.cmdLong /\ ~checkValidNumChar(b) THEN t
          ELSE scanSub([t1 EXCEPT !.cmdAssignVal = Append(@, b)])
      ELSE IF b = "+" \/ b = "#" THEN
          IF t.cmdChar = <<>>
          THEN scanSub([t1 EXCEPT !.cmdLong = TRUE, !.cmdChar = Append(@, b)])
          ELSE bad
      ELSE IF b = "=" THEN
          IF t.cmdChar # <<>> THEN scanSub([t1 EXCEPT !.cmdAssign = TRUE]) ELSE bad
      ELSE IF t.cmdLong THEN
          IF checkValidCmdChar(b)
          THEN scanSub([t1 EXCEPT !.cmdChar = Append(@, b)])
          ELSE bad
      ELSE IF t.cmdChar = <<>> \/ t.cmdChar = <<"&">> THEN
          IF b = "&" /\ t.cmdChar = <<>> /\ Len(t1.buf) > 0
          THEN scanSub([t1 EXCEPT !.cmdChar = Append(@, b)])
          ELSE IF checkValidCmdChar(b)
          THEN LET c == Append(t.cmdChar, b) IN
               IF c = <<"d">> \/ c = <<"D">>
               THEN scanSub([t1 EXCEPT !.cmdChar = c, !.cmdLong = TRUE,
                                       !.cmdAssign = TRUE])
               ELSE scanSub([t1 EXCEPT !.cmdChar = c])
          ELSE bad
      ELSE IF checkValidNumChar(b)
          THEN scanSub([t1 EXCEPT !.cmdNum = Append(@, b)])
          ELSE t

\* The outer loop: m is the modem so far, buf what is left of the line,
\* cmdRet the result of the latest sub-command. atLoopSub is its body for
\* the sub-command t just scanned, atLoopNext the end of the body for the
\* modem m1 the sub-command left.
RECURSIVE atLoop(_, _, _)
\* atLoopNext that goes on to the next sub-command after an ERROR.
atLoopNext_ContinuesOnError(m1, t) ==
    IF m1.panicked # "none" \/ t.cmdLong THEN m1
    ELSE atLoop(m1, t.buf, m1.ret)

atLoopNext(m1, t) ==
    IF m1.panicked # "none" \/ m1.ret = "Error" \/ t.cmdLong THEN m1
    ELSE atLoop(m1, t.buf, m1.ret)

atLoopSub(m, t) ==
    IF t.e THEN Return(m, "Error")
    ELSE atLoopNext(processCommand(m, ToUpper(t.cmdChar), t.cmdNum, t.cmdAssign,
                                   t.cmdQuery, t.cmdAssignVal), t)

atLoop(m, buf, cmdRet) ==
    IF Len(buf) = 0 THEN Return(m, cmdRet)
    ELSE atLoopSub(m, scanSub(NewSub(buf)))

\* processAtCommand without the test of the status at its head.
processAtCommand_NoGate(m, cmd) == atLoop(m, cmd, "Ok")

processAtCommand(m, cmd) ==
    IF m.st # "Idle" /\ m.st # "ConnectedCmd" THEN Return(m, "Error")
    ELSE atLoop(m, cmd, "Ok")

\* processDialing with the obtained stream not stored before the transition.
processDialing_NoStore(m, i, parentDone) ==
    IF ctxErr(m, m.dials[i].ctx, parentDone)
    THEN IF ~m.dials[i].err
         THEN [m EXCEPT !.closedConns = @ \cup {DialConn(i)},
                        !.dials[i].outcome = "discarded"]
         ELSE [m EXCEPT !.dials[i].outcome = "discarded"]
    ELSE IF m.dials[i].err
    THEN [setStatus(m, "Idle") EXCEPT !.dials[i].outcome = "failed"]
    ELSE [setStatus(m, "Connected") EXCEPT !.dials[i].outcome = "connected"]

\* processDialing that does not test its scope after taking the lock.
processDialing_NoScopeTest(m, i, parentDone) ==
    IF m.dials[i].err
    THEN [setStatus(m, "Idle") EXCEPT !.dials[i].outcome = "failed"]
    ELSE [setStatus([m EXCEPT !.conn = DialConn(i)], "Connected")
            EXCEPT !.dials[i].outcome = "connected"]

\* ------------------------------------------------------- the dial task
\* The body of processDialing after m.Lock(), for dial task i.
processDialing(m, i, parentDone) ==
    LET d == m.dials[i] IN
    IF ctxErr(m, d.ctx, parentDone)
    THEN IF ~d.err
         THEN [m EXCEPT !.closedConns = @ \cup {DialConn(i)},
                        !.dials[i].outcome = "discarded"]
         ELSE [m EXCEPT !.dials[i].outcome = "discarded"]
    ELSE IF d.err
    THEN [setStatus(m, "Idle") EXCEPT !.dials[i].outcome = "failed"]
    ELSE [setStatus([m EXCEPT !.conn = DialConn(i)], "Connected")
            EXCEPT !.dials[i].outcome = "connected"]

\* ------------------------------------------------------- the read task
\* m.tty.Write(byteBuff)
ttyWrite(m, b) == ttyWriteStr(m, <<b>>)

\* m.ttyWriteStr("\r"); r := m.processAtCommand(cmd); m.printRetCode(r)
printResult(m2) ==
    IF m2.panicked # "none" THEN m2 ELSE printRetCode(m2, m2.ret)

submitLine(m, cmd) == printResult(processAtCommand(ttyWriteStr(m, <<"\r">>), cmd))

\* The branch of ttyReadTask outside command-entry mode, after the echo
\* that left the modem as m1.
ttyIdleByte(m1, r, b) ==
    IF ToUpperByte(b) = "A"
    THEN [m |-> m1, r |-> [r EXCEPT !.aFlag = TRUE]]
    ELSE IF r.aFlag /\ b = "/"
    THEN [m |-> submitLine(m1, r.lastCmd), r |-> [r EXCEPT !.aFlag = FALSE]]
    ELSE IF r.aFlag /\ ToUpperByte(b) = "T"
    THEN [m |-> m1, r |-> [r EXCEPT !.atFlag = TRUE, !.aFlag = FALSE]]
    ELSE [m |-> m1, r |-> [r EXCEPT !.aFlag = FALSE]]

\* The branch of ttyReadTask in command-entry mode.
ttyLineByte(m, r, b) ==
    IF b = "DEL"
    THEN IF Len(r.buffer) > 0
         THEN [m |-> ttyWriteStr(m, <<"ESC[D", " ", "ESC[D">>),
               r |-> [r EXCEPT !.buffer = SubSeq(@, 1, Len(@) - 1)]]
         ELSE [m |-> m, r |-> r]
    ELSE IF b = "\r"
    THEN [m |-> submitLine(m, r.buffer),
          r |-> [r EXCEPT !.atFlag = FALSE, !.lastCmd = r.buffer, !.buffer = <<>>]]
    ELSE IF Len(r.buffer) < BufCap /\ IsPrint(b)
    THEN [m |-> IF m.echo THEN ttyWrite(m, b) ELSE m,
          r |-> [r EXCEPT !.buffer = Append(@, b)]]
    ELSE [m |-> m, r |-> r]

\* onlineByte that echoes the forwarded byte to the terminal.
onlineByte_Echoes(m, r, b) ==
    [m |-> IF m.conn # NoConn
           THEN ttyWrite([m EXCEPT !.connOut = @ \o <<b>>], b) ELSE m,
     r |-> r]

\* onlineByte with an in-band escape: a / takes the call to command mode.
onlineByte_Escape(m, r, b) ==
    IF b = "/" THEN [m |-> setStatus(m, "ConnectedCmd"), r |-> r]
    ELSE [m |-> IF m.conn # NoConn THEN [m EXCEPT !.connOut = @ \o <<b>>] ELSE m,
          r |-> r]

\* The online pass-through of ttyReadTask: m.conn.Write(byteBuff); continue
onlineByte(m, r, b) ==
    [m |-> IF m.conn # NoConn THEN [m EXCEPT !.connOut = @ \o <<b>>] ELSE m,
     r |-> r]

\* One pass of the loop of ttyReadTask from the m.Lock() after the read to
\* the continue, for the byte b; r holds the locals of the task. The result
\* is the modem and the locals.
ttyReadByte(m, r, b) ==
    IF m.st = "Connected"
    THEN onlineByte(m, r, b)
    ELSE IF m.st = "Dialing"
    THEN [m |-> setStatus(m, "Idle"), r |-> r]
    ELSE IF ~r.atFlag
    THEN ttyIdleByte(IF m.echo THEN ttyWrite(m, b) ELSE m, r, b)
    ELSE ttyLineByte(m, r, b)

\* ---------------------------------------------------------------- actions
Running == panicked = "none"

Quiet == ttyOut' = <<>> /\ connOut' = <<>> /\ ret' = "none" /\ hookCalls' = 0

ModemUnchanged ==
    UNCHANGED <<st, conn, stCtx, cancelled, lifeCancelled, ttyClosed, closedConns,
                sregs, echo, shortForm, outgoingCall, commandHook, panicked>>

\* NewModem: the modem right after construction, its read task blocked in
\* its first read.
Init ==
    /\ st = "Idle"
    /\ conn = NoConn
    /\ stCtx = 0
    /\ cancelled = {}
    /\ lifeCancelled = FALSE
    /\ parentCancelled = FALSE
    /\ ttyClosed = FALSE
    /\ closedConns = {}
    /\ sregs = <<>>
    /\ echo = TRUE
    /\ shortForm = FALSE
    /\ \E c \in Configs : outgoingCall = c.outgoingCall /\ commandHook = c.commandHook
    /\ dials = <<>>
    /\ rt = [pc |-> "reading", byte |-> "", aFlag |-> FALSE, atFlag |-> FALSE,
             buffer |-> <<>>, lastCmd |-> <<>>]
    /\ lockOwner = "none"
    /\ panicked = "none"
    /\ ttyOut = <<>>
    /\ connOut = <<>>
    /\ ret = "none"
    /\ hookCalls = 0

\* What the terminal may deliver to a read: nothing but a failure once the
\* terminal is closed, else a failure or a byte the user types.
TtyInputs ==
    IF ttyClosed THEN {"EOF"}
    ELSE IF ~rt.atFlag THEN IdleBytes \cup {"EOF"}
    ELSE {"\r", "EOF"} \cup (IF Len(rt.buffer) < MaxLine THEN LineBytes ELSE {})

\* m.tty.Read returns the byte b, or fails ("EOF"); the lock is not held.
TtyRead(b) ==
    /\ Running
    /\ rt.pc = "reading"
    /\ b \in TtyInputs
    /\ rt' = [rt EXCEPT !.pc = "pending", !.byte = b]
    /\ Quiet
    /\ ModemUnchanged
    /\ UNCHANGED <<parentCancelled, dials, lockOwner>>

\* The end of a pass of the read task that left the modem and the locals as
\* res: the test of m.ctx at the top of the loop decides whether it reads on.
TtyContinue(res) ==
    /\ Len(res.m.dials) <= MaxDials
    /\ Install(res.m)
    /\ rt' = [res.r EXCEPT !.pc = IF res.m.lifeCancelled \/ parentCancelled
                                  THEN "done" ELSE "reading",
                           !.byte = ""]

\* The read task takes the lock after its read, handles the byte it read,
\* tests m.ctx at the top of the loop and releases the lock.
TtyStep ==
    /\ Running
    /\ rt.pc = "pending"
    /\ lockOwner = "none"
    /\ IF rt.byte = "EOF"
       THEN /\ rt' = [rt EXCEPT !.pc = "done", !.byte = ""]
            /\ Quiet
            /\ ModemUnchanged
            /\ UNCHANGED dials
       ELSE TtyContinue(ttyReadByte(Cur, rt, rt.byte))
    /\ UNCHANGED <<parentCancelled, lockOwner>>

\* The goroutine of dial task i starts: the first test of its scope.
DialBegin(i) ==
    /\ Running
    /\ dials[i].pc = "start"
    /\ dials' = [dials EXCEPT ![i] =
                    IF ctxErr(Cur, dials[i].ctx, parentCancelled)
                    THEN [@ EXCEPT !.pc = "done", !.outcome = "skipped"]
                    ELSE [@ EXCEPT !.pc = "calling"]]
    /\ Quiet
    /\ ModemUnchanged
    /\ UNCHANGED <<parentCancelled, rt, lockOwner>>

\* The outgoing-call capability of dial task i returns a stream (ok) or fails.
DialReturn(i, ok) ==
    /\ Running
    /\ dials[i].pc = "calling"
    /\ dials' = [dials EXCEPT ![i] = [@ EXCEPT !.pc = "returned", !.err = ~ok]]
    /\ Quiet
    /\ ModemUnchanged
    /\ UNCHANGED <<parentCancelled, rt, lockOwner>>

\* Dial task i takes the lock.
DialLock(i) ==
    /\ Running
    /\ dials[i].pc = "returned"
    /\ lockOwner = "none"
    /\ lockOwner' = "dial"
    /\ dials' = [dials EXCEPT ![i] = [@ EXCEPT !.pc = "locked"]]
    /\ Quiet
    /\ ModemUnchanged
    /\ UNCHANGED <<parentCancelled, rt>>

dialDone(m, i) == [m EXCEPT !.dials[i].pc = "done"]

\* A section that may start a dial task is installed while the bound on the
\* number of dial tasks allows it.
InstallBounded(m) ==
    /\ Len(m.dials) <= MaxDials
    /\ Install(m)

\* Dial task i acts on the result of the capability and releases the lock.
DialResume(i) ==
    /\ Running
    /\ dials[i].pc = "locked"
    /\ Install(dialDone(processDialing(Cur, i, parentCancelled), i))
    /\ lockOwner' = "none"
    /\ UNCHANGED <<parentCancelled, rt>>

CloseSync ==
    /\ Running
    /\ lockOwner = "none"
    /\ Install(close(Cur))
    /\ UNCHANGED <<parentCancelled, rt, lockOwner>>

IncomingCallSync(c) ==
    /\ Running
    /\ lockOwner = "none"
    /\ Install(incomingCall(Cur, c))
    /\ UNCHANGED <<parentCancelled, rt, lockOwner>>

ProcessAtCommandSync(cmd) ==
    /\ Running
    /\ lockOwner = "none"
    /\ InstallBounded(processAtCommand(Cur, cmd))
    /\ UNCHANGED <<parentCancelled, rt, lockOwner>>

\* The application cancels the context it gave to NewModem.
CancelParent ==
    /\ Running
    /\ ~parentCancelled
    /\ parentCancelled' = TRUE
    /\ Quiet
    /\ ModemUnchanged
    /\ UNCHANGED <<dials, rt, lockOwner>>

Next ==
    \/ \E b \in IdleBytes \cup LineBytes \cup {"EOF"} : TtyRead(b)
    \/ TtyStep
    \/ \E i \in DOMAIN dials : DialBegin(i)
    \/ \E i \in DOMAIN dials : \E ok \in BOOLEAN : DialReturn(i, ok)
    \/ \E i \in DOMAIN dials : DialLock(i)
    \/ \E i \in DOMAIN dials : DialResume(i)
    \/ CloseSync
    \/ \E c \in IncomingConns : IncomingCallSync(c)
    \/ \E cmd \in InjectedCmds : ProcessAtCommandSync(cmd)
    \/ CancelParent

Spec == Init /\ [][Next]_vars

\* The goroutines are scheduled fairly: a dial task that can take a step
\* takes it, the mutex is handed to a dial task that keeps asking for it,
\* and the read task handles a byte it has read. The terminal user, the
\* application and the outgoing-call capability are under no obligation.
Fairness ==
    /\ \A i \in 1..MaxDials :
          /\ WF_vars(i \in DOMAIN dials /\ DialBegin(i))
          /\ SF_vars(i \in DOMAIN dials /\ DialLock(i))
          /\ WF_vars(i \in DOMAIN dials /\ DialResume(i))
    /\ WF_vars(TtyStep)

SpecFair == Spec /\ Fairness

\* ------------------------------------------- setStatus on its own
\* Number of transitions one behaviour of SpecSetStatus attempts.
MaxTransitions == 3

\* The modems setStatus is applied to: every status, with a connection where
\* the status has one (a Closed modem may have kept one), in both forms.
InitSetStatus ==
    /\ st \in Statuses
    /\ conn \in (IF st \in {"Ringing", "Connected", "ConnectedCmd"} THEN {101}
                 ELSE IF st = "Closed" THEN {NoConn, 101} ELSE {NoConn})
    /\ shortForm \in BOOLEAN
    /\ lifeCancelled = (st = "Closed")
    /\ ttyClosed = (st = "Closed")
    /\ stCtx = 0
    /\ cancelled = {}
    /\ parentCancelled = FALSE
    /\ closedConns = {}
    /\ sregs = <<>>
    /\ echo = TRUE
    /\ outgoingCall = TRUE
    /\ commandHook = "nil"
    /\ dials = <<>>
    /\ rt = [pc |-> "done", byte |-> "", aFlag |-> FALSE, atFlag |-> FALSE,
             buffer |-> <<>>, lastCmd |-> <<>>]
    /\ lockOwner = "none"
    /\ panicked = "none"
    /\ ttyOut = <<>>
    /\ connOut = <<>>
    /\ ret = "none"
    /\ hookCalls = 0

\* m.setStatus(next), called with the lock held on a modem that has a
\* connection if its status has one.
ApplySetStatus(next) ==
    /\ Running
    /\ stCtx < MaxTransitions
    /\ st \in {"Ringing", "Connected", "ConnectedCmd"} => conn # NoConn
    /\ Install(setStatus(Cur, next))
    /\ UNCHANGED <<parentCancelled, rt, lockOwner>>

\* m.conn = conn, as incomingCall does it right after setStatus(Ringing) and
\* processDialing right before setStatus(Connected).
StoreConn(c) ==
    /\ Running
    /\ st \in {"Dialing", "Ringing"}
    /\ conn = NoConn
    /\ conn' = c
    /\ Quiet
    /\ UNCHANGED <<st, stCtx, cancelled, lifeCancelled, ttyClosed, closedConns,
                   sregs, echo, shortForm, outgoingCall, commandHook, panicked,
                   parentCancelled, dials, rt, lockOwner>>

NextSetStatus ==
    \/ \E next \in Statuses : ApplySetStatus(next)
    \/ \E c \in IncomingConns : StoreConn(c)

SpecSetStatus == InitSetStatus /\ [][NextSetStatus]_vars

\* ------------------------------- lock-required operations, lock not held
\* m.checkLock() in a caller that does not hold the lock: TryLock succeeds
\* when the mutex is free, and the caller panics holding it.
checkLockPanic ==
    /\ lockOwner = "none"
    /\ Install(Panic(Cur, "lock"))
    /\ lockOwner' = "caller"
    /\ UNCHANGED <<parentCancelled, rt>>

\* TryLock fails because another task holds the mutex: checkLock returns
\* and the operation m runs beside the holder's section.
checkLockPasses(m) ==
    /\ lockOwner # "none"
    /\ InstallBounded(m)
    /\ UNCHANGED <<parentCancelled, rt, lockOwner>>

RawStatus ==
    /\ Running
    /\ checkLockPanic \/ checkLockPasses(Return(Cur, st))

RawClose ==
    /\ Running
    /\ checkLockPanic \/ checkLockPasses(close(Cur))

RawIncomingCall(c) ==
    /\ Running
    /\ checkLockPanic \/ checkLockPasses(incomingCall(Cur, c))

RawProcessAtCommand(cmd) ==
    /\ Running
    /\ checkLockPanic \/ checkLockPasses(processAtCommand(Cur, cmd))

RawTtyWriteStr(str) ==
    /\ Running
    /\ checkLockPanic \/ checkLockPasses(ttyWriteStr(Cur, <<str>>))

RawCr ==
    /\ Running
    /\ checkLockPanic \/ checkLockPasses(Return(Cur, cr(Cur)))

NextRaw ==
    \/ Next
    \/ RawStatus
    \/ RawClose
    \/ \E c \in IncomingConns : RawIncomingCall(c)
    \/ \E cmd \in InjectedCmds : RawProcessAtCommand(cmd)
    \/ RawTtyWriteStr("x")
    \/ RawCr

SpecRaw == Init /\ [][NextRaw]_vars

\* --------------------------------------- the terminal user on their own
\* Command lines the terminal user types after AT: one that overruns the
\* edit buffer by a character, and lines that switch the result form, the
\* echo, and write and query a register.
TypedLines ==
    {[k \in 1..(BufCap + 1) |-> "x"],
     <<"V", "0", "S", "5", "?">>, <<"V", "1">>, <<"E", "0">>, <<"E", "1">>,
     <<"S", "5", "=", "4", "2">>}

\* s is the beginning of the line l.
IsPrefix(s, l) == Len(s) <= Len(l) /\ s = SubSeq(l, 1, Len(s))

\* What the terminal delivers to a read: outside command-entry mode the
\* bytes of the AT and A/ prefixes, inside it the next byte of a line of
\* TypedLines, a delete, a linefeed, or the carriage return once the buffer
\* holds nothing, a whole line, or is full; or a failure.
TypedInputs ==
    IF ~rt.atFlag THEN {"A", "T", "/", "EOF"}
    ELSE {"\n", "DEL", "EOF"} \cup
         {b \in {"x", "V", "E", "S", "0", "1", "2", "4", "5", "=", "?"} :
             \E l \in TypedLines : IsPrefix(Append(rt.buffer, b), l)} \cup
         (IF rt.buffer \in TypedLines \cup {<<>>} \/ Len(rt.buffer) = BufCap
          THEN {"\r"} ELSE {})

\* m.tty.Read returns the byte b the user typed, or fails ("EOF").
TtyType(b) ==
    /\ Running
    /\ rt.pc = "reading"
    /\ b \in TypedInputs
    /\ rt' = [rt EXCEPT !.pc = "pending", !.byte = b]
    /\ Quiet
    /\ ModemUnchanged
    /\ UNCHANGED <<parentCancelled, dials, lockOwner>>

NextTty ==
    \/ \E b \in {"A", "T", "/", "EOF", "\r", "\n", "DEL", "x", "V", "E", "S",
                 "0", "1", "2", "4", "5", "=", "?"} : TtyType(b)
    \/ TtyStep

SpecTty == Init /\ [][NextTty]_vars

\* ------------------------------------------- command lines on their own
\* Short sub-commands the user chains into a line: echo and result form
\* (with an argument out of range), register writes and queries (with an
\* index, and a value, out of range, and one index with leading zeros), the
\* answer command, and a letter the command table does not know.
SubCmds ==
    {<<"E", "0">>, <<"E", "1">>, <<"E", "2">>, <<"V", "0">>, <<"V", "1">>,
     <<"S", "5", "=", "4", "2">>, <<"S", "2", "5", "5", "=", "2", "5", "5">>,
     <<"S", "5", "=", "2", "5", "6">>, <<"S", "2", "5", "6", "=", "0">>,
     <<"S", "0", "0", "5", "=", "0">>,
     <<"S", "5", "?">>, <<"S", "2", "5", "5", "?">>, <<"S", "2", "5", "6", "?">>,
     <<"A">>, <<"Z">>}

\* The line made of the sub-commands of c, in order.
RECURSIVE Flatten(_)
Flatten(c) == IF Len(c) = 0 THEN <<>> ELSE Head(c) \o Flatten(Tail(c))

Chains == UNION {[1..n -> SubCmds] : n \in 1..MaxChain}

CmdLines == {Flatten(c) : c \in Chains}

\* Register stores earlier lines have left behind.
Stores == {<<>>, (5 :> 7), (5 :> 42) @@ (255 :> 1)}

\* The user has typed AT and a line of CmdLines into the edit buffer of a
\* modem whose echo, result form and registers earlier lines have set, and
\* the read task has just read the carriage return.
InitLine ==
    /\ st = "Idle"
    /\ conn = NoConn
    /\ stCtx = 0
    /\ cancelled = {}
    /\ lifeCancelled = FALSE
    /\ parentCancelled = FALSE
    /\ ttyClosed = FALSE
    /\ closedConns = {}
    /\ sregs \in Stores
    /\ echo \in BOOLEAN
    /\ shortForm \in BOOLEAN
    /\ \E c \in Configs : outgoingCall = c.outgoingCall /\ commandHook = c.commandHook
    /\ dials = <<>>
    /\ \E line \in CmdLines :
          rt = [pc |-> "pending", byte |-> "\r", aFlag |-> FALSE, atFlag |-> TRUE,
                buffer |-> line, lastCmd |-> <<>>]
    /\ lockOwner = "none"
    /\ panicked = "none"
    /\ ttyOut = <<>>
    /\ connOut = <<>>
    /\ ret = "none"
    /\ hookCalls = 0

\* The read task submits the line; the user may then repeat it with A/.
NextLine ==
    \/ TtyStep
    \/ \E b \in {"A", "/"} : TtyRead(b)

SpecLine == InitLine /\ [][NextLine]_vars

\* ------------------------------------------------------------------ claims
Connected3 == {"Ringing", "Connected", "ConnectedCmd"}

\* A result line as printRetCode frames it: v in verbose form, t in terse.
ResultLine(v, t) ==
    IF shortForm THEN <<"\r", t, "\r">> ELSE <<"\r\n", v, "\r\n">>

\* The read task is about to hand the line cmd to processAtCommand: the
\* carriage return that ends the line typed after AT ...
TtyTypedLine(cmd) ==
    /\ rt.pc = "pending"
    /\ st \notin {"Connected", "Dialing"}
    /\ rt.atFlag /\ rt.byte = "\r" /\ rt.buffer = cmd

\* ... or the / of an A/ repeat.
TtyRepeats(cmd) ==
    /\ rt.pc = "pending"
    /\ st \notin {"Connected", "Dialing"}
    /\ ~rt.atFlag /\ rt.aFlag /\ rt.byte = "/" /\ rt.lastCmd = cmd

\* C1: whenever the modem lock is free, the connection is non-nil exactly
\* when the status is Ringing, Connected or ConnectedCmd.
C1_ConnIffStatus ==
    lockOwner = "none" => ((conn # NoConn) <=> (st \in Connected3))

\* C2 (as stated): setStatus succeeds exactly on the pairs of the transition
\* table, with the table's side effects, and panics on every other pair,
\* Idle -> Idle included, leaving the status as it was.
TransitionTable ==
    {<<"Idle", "Dialing">>, <<"Idle", "Ringing">>, <<"Idle", "Closed">>,
     <<"Dialing", "Connected">>, <<"Dialing", "Idle">>, <<"Dialing", "Closed">>,
     <<"Ringing", "Connected">>, <<"Ringing", "Idle">>, <<"Ringing", "Closed">>,
     <<"Connected", "ConnectedCmd">>, <<"Connected", "Idle">>, <<"Connected", "Closed">>,
     <<"ConnectedCmd", "Connected">>, <<"ConnectedCmd", "Idle">>, <<"ConnectedCmd", "Closed">>}

\* What a successful setStatus(next) does, in terms of the state before.
TransitionEffect(next) ==
    /\ panicked' = "none"
    /\ st' = next
    /\ ttyOut' = (IF next = "Idle" /\ st \in {"Connected", "ConnectedCmd", "Dialing"}
                  THEN ResultLine("NO CARRIER", "3")
                  ELSE IF next = "Connected" THEN ResultLine("CONNECT", "1")
                  ELSE IF next = "ConnectedCmd" THEN ResultLine("OK", "0")
                  ELSE <<>>)
    /\ conn' = (IF next = "Idle" /\ st \in Connected3 THEN NoConn ELSE conn)
    /\ closedConns' = (IF next = "Idle" /\ st \in Connected3
                       THEN closedConns \cup {conn} ELSE closedConns)
    /\ stCtx \in cancelled'
    /\ stCtx' \notin cancelled'
    /\ stCtx' # stCtx

\* What a fatal setStatus leaves behind.
TransitionFatal ==
    /\ panicked' = "transition"
    /\ st' = st
    /\ conn' = conn
    /\ closedConns' = closedConns
    /\ ttyOut' = <<>>
    /\ stCtx' = stCtx
    /\ cancelled' = cancelled

C3_StaleDialDiscarded ==
    /\ [][\A i \in DOMAIN dials :
            (DialResume(i) /\ dials[i].ctx # stCtx) =>
                /\ st' = st
                /\ stCtx' = stCtx
                /\ conn' = conn
                /\ conn' # DialConn(i)
                /\ ttyOut' = <<>>
                /\ panicked' = "none"
                /\ ~dials[i].err => DialConn(i) \in closedConns']_vars
    /\ [](\A i \in DOMAIN dials :
            dials[i].outcome = "discarded" => conn # DialConn(i))

\* Dial task 1 was aborted and has discarded its stream while dial task 2
\* is in Dialing, its capability still outstanding.
C3_Witness ==
    /\ Len(dials) = 2
    /\ dials[1].outcome = "discarded"
    /\ DialConn(1) \in closedConns
    /\ st = "Dialing"
    /\ dials[2].pc = "calling"
    /\ dials[2].ctx = stCtx
    /\ conn = NoConn

\* C4: an incoming call injected while Idle leaves the modem Ringing with
\* the injected stream; the line ATA + carriage return typed while Ringing
\* then connects: status Connected, the connect result printed, no OK and no
\* ERROR.
C4_AnswerConnects ==
    [][/\ \A c \in IncomingConns :
            (IncomingCallSync(c) /\ st = "Idle") => (st' = "Ringing" /\ conn' = c)
       /\ (TtyStep /\ TtyTypedLine(<<"A">>) /\ st = "Ringing" /\ commandHook = "nil") =>
            /\ st' = "Connected"
            /\ ttyOut' = <<"\r">> \o ResultLine("CONNECT", "1")]_vars

\* C5: every step that takes the modem from Dialing back to Idle prints NO
\* CARRIER exactly once, be it the dial task reporting the failure of the
\* capability or a terminal byte aborting the dial; NO CARRIER is printed by
\* no other step, except as the result of a command line of its own; a dial
\* typed as ATD + carriage return on an idle modem takes it to Dialing
\* without a result line, and the failure of its capability takes it from
\* Dialing to Idle.
NoCarrierLines(out) ==
    Cardinality({k \in DOMAIN out : out[k] \in {"NO CARRIER", "3"}})

C5_NoCarrierOnce ==
    [][/\ (st = "Dialing" /\ st' = "Idle") =>
            /\ ttyOut' = ResultLine("NO CARRIER", "3")
            /\ NoCarrierLines(ttyOut') = 1
       /\ NoCarrierLines(ttyOut') > 0 =>
            \/ st = "Dialing" /\ st' = "Idle"
            \/ ret' = "NoCarrier"
       /\ (TtyStep /\ TtyTypedLine(<<"D">>) /\ st = "Idle" /\ outgoingCall
             /\ commandHook = "nil" /\ Len(dials) < MaxDials) =>
            /\ st' = "Dialing"
            /\ ttyOut' = <<"\r">>
       /\ \A i \in DOMAIN dials :
            (DialResume(i) /\ dials[i].err /\ dials[i].ctx = stCtx
               /\ ~parentCancelled) =>
                (st = "Dialing" /\ st' = "Idle")]_vars

\* Dial task 1 was aborted from the terminal, which printed NO CARRIER; its
\* capability then failed as well, and the task has ended without a word.
C5_Witness ==
    /\ Len(dials) = 1
    /\ dials[1].pc = "done"
    /\ dials[1].outcome = "discarded"
    /\ dials[1].err
    /\ st = "Idle"
    /\ ttyOut = <<>>
    /\ rt.lastCmd = <<"D">>

\* C6 (as stated): a dial task whose capability returns a stream, with no
\* status transition since its Dialing began, stores that stream as the
\* connection, makes the status Connected and prints the connect result once.
DialConnects(i) ==
    /\ st = "Dialing"
    /\ st' = "Connected"
    /\ conn' = DialConn(i)
    /\ DialConn(i) \notin closedConns'
    /\ ttyOut' = ResultLine("CONNECT", "1")

LineRejected ==
    /\ ret' = "Error"
    /\ hookCalls' = 0
    /\ UNCHANGED <<st, conn, stCtx, sregs, echo, shortForm, dials, closedConns>>

C7_RejectedBeforeParsing ==
    [][/\ \A cmd \in InjectedCmds :
            (ProcessAtCommandSync(cmd) /\ st \notin {"Idle", "ConnectedCmd"}) =>
                (LineRejected /\ ttyOut' = <<>>)
       /\ (TtyStep /\ rt.pc = "pending" /\ st \notin {"Idle", "ConnectedCmd"}
             /\ (TtyTypedLine(rt.buffer) \/ TtyRepeats(rt.lastCmd))) =>
            LineRejected]_vars

\* The line A typed on a ringing modem with a command hook configured was
\* answered ERROR without the hook being asked.
C7_Witness ==
    /\ st = "Ringing"
    /\ rt.lastCmd = <<"A">>
    /\ ret = "Error"
    /\ commandHook # "nil"
    /\ hookCalls = 0
    /\ ttyOut = <<"\r", "\r\n", "ERROR", "\r\n">>

\* C8: incomingCall on an idle modem stores the stream as the connection
\* and makes the status Ringing, printing nothing; in every other status it
\* returns the busy error and leaves status and connection as they were, the
\* offered stream neither stored nor closed.
C8_IncomingCall ==
    [][\A c \in IncomingConns :
          IncomingCallSync(c) =>
              IF st = "Idle"
              THEN /\ st' = "Ringing"
                   /\ conn' = c
                   /\ ret' = "nil"
                   /\ ttyOut' = <<>>
                   /\ closedConns' = closedConns
              ELSE /\ ret' = "ErrModemBusy"
                   /\ ttyOut' = <<>>
                   /\ UNCHANGED <<st, conn, stCtx, closedConns>>]_vars

\* A call was offered to a ringing modem and refused.
C8_Witness ==
    /\ st = "Ringing"
    /\ conn \in IncomingConns
    /\ ret = "ErrModemBusy"

\* C9: close on a modem that is not Closed makes it Closed, cancels the
\* lifetime scope and closes the terminal; once Closed the status never
\* changes again, and a second close panics.
C9_CloseIsFinal ==
    [][/\ (CloseSync /\ st # "Closed") =>
            (st' = "Closed" /\ lifeCancelled' /\ ttyClosed' /\ panicked' = "none")
       /\ (CloseSync /\ st = "Closed") =>
            (panicked' = "transition" /\ st' = "Closed")
       /\ st = "Closed" => st' = "Closed"]_vars

\* A second close has panicked.
C9_Witness ==
    /\ st = "Closed"
    /\ panicked = "transition"
    /\ lifeCancelled
    /\ ttyClosed

\* C10: a lock-required operation called without the lock panics, whoever
\* holds the lock at that moment, and neither reads nor changes the modem.
RawCallAborts ==
    /\ panicked' = "lock"
    /\ ret' = "none"
    /\ ttyOut' = <<>>
    /\ UNCHANGED <<st, conn, stCtx, cancelled, lifeCancelled, ttyClosed,
                   closedConns, sregs, echo, shortForm, dials>>

C10_RawCallAborts ==
    [][(\/ RawStatus
        \/ RawClose
        \/ \E c \in IncomingConns : RawIncomingCall(c)
        \/ \E cmd \in InjectedCmds : RawProcessAtCommand(cmd)
        \/ RawTtyWriteStr("x")
        \/ RawCr) => RawCallAborts]_vars

\* C11: the D command on an idle modem with no outgoing-call capability
\* returns NO CARRIER, leaves the status Idle and the status scope as it was,
\* and starts no dial task; in any status other than Idle it returns ERROR
\* and changes neither status nor scope nor connection. The line D is typed
\* and submitted, repeated with A/, or injected.
DialLineHandled ==
    \/ ProcessAtCommandSync(<<"D">>)
    \/ TtyStep /\ (TtyTypedLine(<<"D">>) \/ TtyRepeats(<<"D">>))

C11_DialWithoutCapability ==
    [][DialLineHandled =>
          /\ (st = "Idle" /\ ~outgoingCall) =>
                /\ ret' = "NoCarrier"
                /\ UNCHANGED <<st, stCtx, cancelled, dials, conn>>
          /\ st # "Idle" =>
                /\ ret' = "Error"
                /\ UNCHANGED <<st, stCtx, cancelled, dials, conn>>]_vars

\* ATD was typed on an idle modem that has no capability: NO CARRIER, and
\* neither a Dialing episode nor a dial task.
C11_Witness ==
    /\ ~outgoingCall
    /\ rt.lastCmd = <<"D">>
    /\ ret = "NoCarrier"
    /\ ttyOut = <<"\r", "\r\n", "NO CARRIER", "\r\n">>
    /\ st = "Idle"
    /\ stCtx = 0
    /\ dials = <<>>

\* C12: on a fresh modem on which no command line has been submitted, the
\* terminal input A followed by / is malformed: the A-seen flag is cleared,
\* no line is replayed through the tokenizer (processAtCommand is not
\* called, the hook is not asked) and no OK result is printed.
C12_RepeatWithoutLastCommand ==
    [][(TtyStep /\ TtyRepeats(<<>>) /\ st = "Idle" /\ stCtx = 0 /\ dials = <<>>) =>
          /\ ~rt'.aFlag
          /\ ret' = "none"
          /\ hookCalls' = 0
          /\ \A k \in DOMAIN ttyOut' : ttyOut'[k] \notin {"OK", "0"}]_vars

\* C13: in command-entry mode the edit buffer never holds more than 100
\* characters; a printable byte that arrives when it holds 100 is not
\* appended but, with echo enabled, is still echoed to the terminal.
C13_BufferCap ==
    /\ [](Len(rt.buffer) <= BufCap)
    /\ [][(TtyStep /\ rt.pc = "pending" /\ rt.atFlag /\ IsPrint(rt.byte)
             /\ st \notin {"Connected", "Dialing"} /\ Len(rt.buffer) = BufCap) =>
              /\ rt'.buffer = rt.buffer
              /\ echo => ttyOut' = <<rt.byte>>]_vars

\* The read task is about to hand the line cmd to processAtCommand, typed
\* or repeated.
Submits(cmd) == TtyTypedLine(cmd) \/ TtyRepeats(cmd)

\* Register writes and queries, with the index and the value each denotes.
SWrites ==
    {[text |-> <<"S", "5", "=", "4", "2">>, r |-> 5, v |-> 42],
     [text |-> <<"S", "2", "5", "5", "=", "2", "5", "5">>, r |-> 255, v |-> 255],
     [text |-> <<"S", "5", "=", "2", "5", "6">>, r |-> 5, v |-> 256],
     [text |-> <<"S", "2", "5", "6", "=", "0">>, r |-> 256, v |-> 0],
     [text |-> <<"S", "0", "0", "5", "=", "0">>, r |-> 5, v |-> 0]}

SQueries ==
    {[text |-> <<"S", "5", "?">>, r |-> 5],
     [text |-> <<"S", "2", "5", "5", "?">>, r |-> 255],
     [text |-> <<"S", "2", "5", "6", "?">>, r |-> 256]}

\* The value of register k in the store f: 0 if never written.
Reg(f, k) == IF k \in DOMAIN f THEN f[k] ELSE 0

\* The values the registers take here, as three zero-padded digits.
Pad3 ==
    (0 :> <<"0", "0", "0">>) @@ (1 :> <<"0", "0", "1">>) @@ (7 :> <<"0", "0", "7">>)
      @@ (42 :> <<"0", "4", "2">>) @@ (255 :> <<"2", "5", "5">>)

\* What was written to the terminal, line endings left out.
NoEnds(out) == SelectSeq(out, LAMBDA x : x \notin {"\r", "\r\n"})

\* The store f after the write w.
Written(f, w) == [k \in 0..MaxReg |-> IF k = w.r THEN w.v ELSE Reg(f, k)]

\* The latest step printed the value v, as three digits, and then OK.
PrintedValue(v) ==
    /\ ret' = "Ok"
    /\ \E pre \in {<<>>, <<"/">>} :
          NoEnds(ttyOut') = pre \o Pad3[v] \o <<IF shortForm THEN "0" ELSE "OK">>

\* C14: the line S<r>=<v> with r and v in 0..255 returns OK and stores v in
\* register r, leaving every other register as it was; S<r>? prints the
\* value of register r as three zero-padded digits and returns OK, also
\* right after a write to that or to another register in the same line; an
\* index or a value above 255 returns ERROR and leaves the store unchanged.
C14_RegisterRoundTrip ==
    [][(TtyStep /\ st = "Idle" /\ commandHook # "Error") =>
          /\ \A w \in SWrites :
                Submits(w.text) =>
                    IF w.r <= MaxReg /\ w.v <= MaxReg
                    THEN /\ ret' = "Ok"
                         /\ \A k \in 0..MaxReg : Reg(sregs', k) = Written(sregs, w)[k]
                         /\ DOMAIN sregs' \subseteq 0..MaxReg
                    ELSE ret' = "Error" /\ sregs' = sregs
          /\ \A q \in SQueries :
                Submits(q.text) =>
                    IF q.r <= MaxReg
                    THEN PrintedValue(Reg(sregs, q.r)) /\ sregs' = sregs
                    ELSE ret' = "Error" /\ sregs' = sregs /\ NoEnds(ttyOut') \in
                            {<<"ERROR">>, <<"4">>, <<"/", "ERROR">>, <<"/", "4">>}
          /\ \A w \in SWrites : \A q \in SQueries :
                (Submits(w.text \o q.text) /\ w.r <= MaxReg /\ w.v <= MaxReg
                   /\ q.r <= MaxReg) =>
                    PrintedValue(Written(sregs, w)[q.r])]_vars

\* The line S5=42S5? printed 042: the register reads back what the line
\* has just written.
C14_Witness ==
    /\ rt.lastCmd = <<"S", "5", "=", "4", "2", "S", "5", "?">>
    /\ Reg(sregs, 5) = 42
    /\ ret = "Ok"
    /\ ttyOut = <<"\r", "\r\n", "0", "4", "2", "\r\n", "\r\n", "OK", "\r\n">>

\* C15: when a command line is submitted, every line ending written to the
\* terminal (around the result, after the digits of a register query, and
\* the carriage return echoed on submission) is the one of the current
\* form, carriage return alone in terse form and carriage return + linefeed
\* in verbose form; and OK is printed as 0 in terse and as OK in verbose
\* form.
C15_LineEndings ==
    [][(TtyStep /\ (TtyTypedLine(rt.buffer) \/ TtyRepeats(rt.lastCmd))) =>
          /\ shortForm' = shortForm =>
                \A k \in DOMAIN ttyOut' :
                    ttyOut'[k] \in {"\r", "\r\n"} =>
                        ttyOut'[k] = (IF shortForm THEN "\r" ELSE "\r\n")
          /\ (ret' = "Ok" /\ Len(ttyOut') >= 3) =>
                SubSeq(ttyOut', Len(ttyOut') - 2, Len(ttyOut')) =
                    (IF shortForm' THEN <<"\r", "0", "\r">>
                     ELSE <<"\r\n", "OK", "\r\n">>)]_vars

\* C16: while the status is Connected, a byte the read task has read from
\* the terminal is written unchanged to the connection and nothing else
\* happens: no echo, no result, and status, A-seen flag, command-entry flag,
\* edit buffer and last command stay as they were; no step of the read task
\* takes the modem out of Connected.
C16_OnlinePassThrough ==
    [][/\ (TtyStep /\ rt.pc = "pending" /\ rt.byte # "EOF" /\ st = "Connected") =>
            /\ connOut' = <<rt.byte>>
            /\ ttyOut' = <<>>
            /\ ret' = "none"
            /\ hookCalls' = 0
            /\ rt'.aFlag = rt.aFlag
            /\ rt'.atFlag = rt.atFlag
            /\ rt'.buffer = rt.buffer
            /\ rt'.lastCmd = rt.lastCmd
            /\ UNCHANGED <<st, conn, stCtx, cancelled, closedConns, sregs, echo,
                           shortForm, dials, panicked>>
       /\ (st = "Connected" /\ rt' # rt) => st' = "Connected"]_vars

\* A / typed right after an A went to the connection of the call a dial had
\* set up in between: no repeat, and the A-seen flag still set.
C16_Witness ==
    /\ st = "Connected"
    /\ conn = DialConn(1)
    /\ connOut = <<"/">>
    /\ ttyOut = <<>>
    /\ rt.aFlag
    /\ rt.pc = "reading"

\* The sub-commands of each line of CmdLines.
LineChain == [line \in CmdLines |-> CHOOSE c \in Chains : Flatten(c) = line]

\* What one sub-command does on an idle modem, by the command table: s holds
\* echo, result form, the registers, what was printed (line endings left
\* out), the result, and the number of sub-commands executed.
RefWrite(s, w) ==
    IF w.r <= MaxReg /\ w.v <= MaxReg
    THEN [s EXCEPT !.store = Written(s.store, w), !.ret = "Ok"]
    ELSE [s EXCEPT !.ret = "Error"]

RefQuery(s, q) ==
    IF q.r <= MaxReg
    THEN [s EXCEPT !.out = @ \o Pad3[s.store[q.r]], !.ret = "Ok"]
    ELSE [s EXCEPT !.ret = "Error"]

RefSub(t, s) ==
    CASE t = <<"E", "0">> -> [s EXCEPT !.echo = FALSE, !.ret = "Ok"]
      [] t = <<"E", "1">> -> [s EXCEPT !.echo = TRUE, !.ret = "Ok"]
      [] t = <<"V", "0">> -> [s EXCEPT !.shortForm = TRUE, !.ret = "Ok"]
      [] t = <<"V", "1">> -> [s EXCEPT !.shortForm = FALSE, !.ret = "Ok"]
      [] t = <<"E", "2">> -> [s EXCEPT !.ret = "Error"]
      [] t = <<"A">> -> [s EXCEPT !.ret = "NoCarrier"]
      [] t = <<"Z">> -> [s EXCEPT !.ret = "Ok"]
      [] \E w \in SWrites : w.text = t ->
           RefWrite(s, CHOOSE w \in SWrites : w.text = t)
      [] \E q \in SQueries : q.text = t ->
           RefQuery(s, CHOOSE q \in SQueries : q.text = t)

\* A line: its sub-commands from left to right, up to the first ERROR.
RECURSIVE RefLine(_, _)
RefCount(s) == [s EXCEPT !.n = @ + 1]

RefRest(c, s1) == IF s1.ret = "Error" THEN s1 ELSE RefLine(Tail(c), s1)

RefLine(c, s) ==
    IF Len(c) = 0 THEN s ELSE RefRest(c, RefSub(Head(c), RefCount(s)))

RetText(r, terse) ==
    CASE r = "Ok" -> IF terse THEN "0" ELSE "OK"
      [] r = "Error" -> IF terse THEN "4" ELSE "ERROR"
      [] r = "NoCarrier" -> IF terse THEN "3" ELSE "NO CARRIER"

\* The step left the modem and the terminal as the line's reference run f
\* says; pre is the echo of the byte that submitted the line.
LineDoneAs(f, pre) ==
    /\ echo' = f.echo
    /\ shortForm' = f.shortForm
    /\ \A k \in 0..MaxReg : Reg(sregs', k) = f.store[k]
    /\ ret' = f.ret
    /\ NoEnds(ttyOut') = pre \o f.out \o <<RetText(f.ret, f.shortForm)>>
    /\ commandHook = "Skip" => hookCalls' = f.n
    /\ st' = "Idle"

\* The state a line starts from.
RefStart ==
    [echo |-> echo, shortForm |-> shortForm,
     store |-> [k \in 0..MaxReg |-> Reg(sregs, k)], out |-> <<>>, ret |-> "Ok",
     n |-> 0]

\* C17: a line of chained short sub-commands submitted on an idle modem
\* executes them from left to right and stops at the first one that returns
\* ERROR, so that no later one is executed or has an effect; one result is
\* printed for the line: that ERROR, or else the result of the last
\* sub-command executed.
C17_ChainedLine ==
    [][(TtyStep /\ st = "Idle" /\ commandHook # "Error") =>
          /\ TtyTypedLine(rt.buffer) =>
                LineDoneAs(RefLine(LineChain[rt.buffer], RefStart), <<>>)
          /\ TtyRepeats(rt.lastCmd) =>
                LineDoneAs(RefLine(LineChain[rt.lastCmd], RefStart),
                           IF echo THEN <<"/">> ELSE <<>>)]_vars

\* E0E0 has left the echo disabled and printed one OK.
C17_Witness ==
    /\ rt.lastCmd = <<"E", "0", "E", "0">>
    /\ ~echo
    /\ ret = "Ok"
    /\ ttyOut = <<"\r", "\r\n", "OK", "\r\n">>

\* C18: the status is never ConnectedCmd, whatever the terminal types, the
\* dial tasks report and the application injects or closes; so O never
\* returns a call to Connected and H never hangs up from ConnectedCmd.
C18_ConnectedCmdUnreachable == st # "ConnectedCmd"

\* A command line injected during a call was refused, the call still up:
\* neither O nor H nor any other line is executed in Connected.
C18_Witness ==
    /\ st = "Connected"
    /\ conn = DialConn(1)
    /\ ret = "Error"
    /\ hookCalls = 0
    /\ ttyOut = <<>>

\* C19: with no command hook configured, no step other than a second close
\* makes setStatus panic on an invalid transition; and on a Closed modem
\* neither the read task handling a byte it had already read nor a dial task
\* resuming attempts a transition: the status stays Closed and the status
\* scope is not renewed.
C19_NoFatalTransition ==
    [][commandHook = "nil" =>
          /\ ~(CloseSync /\ st = "Closed") => panicked' = "none"
          /\ (st = "Closed" /\ (TtyStep \/ \E i \in DOMAIN dials : DialResume(i))) =>
                (st' = "Closed" /\ stCtx' = stCtx /\ panicked' = "none")]_vars

\* After the close a dial task has come back and discarded its stream, and
\* the read task has then handled the carriage return it had read before:
\* the line was refused and the task has ended.
C19_Witness ==
    /\ commandHook = "nil"
    /\ st = "Closed"
    /\ panicked = "none"
    /\ ~parentCancelled
    /\ Len(dials) >= 1
    /\ dials[1].outcome = "discarded"
    /\ DialConn(1) \in closedConns
    /\ rt.pc = "done"
    /\ ret = "Error"

\* C20: Dialing does not outlive its dial task. Under fair scheduling, once
\* the capability called for the current Dialing episode has returned, the
\* status eventually leaves Dialing, also when the context given to NewModem
\* is cancelled while the dial is outstanding.
C20_DialingEnds ==
    \A i \in 1..MaxDials :
        (/\ i \in DOMAIN dials
         /\ dials[i].pc = "returned"
         /\ dials[i].ctx = stCtx
         /\ st = "Dialing") ~> (st # "Dialing")

====
